---- MODULE Spec2Model ----
(***************************************************************************)
(* Model of the Planet repository: the utilities module (cloner,           *)
(* loadAssets, bakeTerrain, reduceMeshComplexity), the planet application  *)
(* (main.js: init, regenerate, animate/animateWater) and the earthquake     *)
(* application (init, bakeTerrain, lockColors, setupCloner, refreshClones, *)
(* updateRaycast, updateDisplacer, updateClones, animate).                  *)
(*                                                                         *)
(* Numbers: a vertex is modelled by its signed coordinate along one axis   *)
(* through the mesh's origin (an integer, or NaN); the outward direction   *)
(* of a vertex is the sign of its coordinate.  Float rounding is modelled  *)
(* by integer division truncating toward zero.                             *)
(***************************************************************************)
EXTENDS Integers, Sequences, FiniteSets, TLC

VARIABLES
    prog,            \* which entry point runs: "cloner" | "quake" | "main"
    \* ---- cloner(planet, count, prefabs, scene) ----
    cl_pc,           \* "off" | "call" | "draw" | "place" | "returned" | "threw"
    cl_count,        \* argument count
    cl_total,        \* positions.count of the target mesh
    cl_prefabs,      \* prefabs.length
    cl_i,            \* loop variable i
    cl_vIndex,       \* local vIndex
    usedIndices,     \* the Set usedIndices
    cl_clones,       \* the array clones: records [id, v, prefab]
    scene,           \* objects registered by scene.add (instance ids)
    cl_sceneBefore,  \* history: scene as it was when cloner was entered
    nextObj,         \* allocation counter of object identities
    noiseSeed,       \* the seed createNoise3D() drew at module load
    \* ---- earthquake application ----
    q_pc,            \* "off" | "bake" | "lock" | "setup" | "idle" |
                     \* "raycast" | "displace" | "track" | "render"
    q_pos,           \* planet.geometry.attributes.position
    originalPositions, \* the module variable originalPositions
    aBakedHeight,    \* the attribute aBakedHeight (<<>>: not set)
    clones,          \* the array clones: records [id, pos]
    vertexIndices,   \* the array vertexIndices
    impactPoint,     \* the module variable impactPoint
    settings,        \* settings.audioVolume, settings.count
    q_time,          \* the local time of the running animate call
    q_log,           \* history: the steps of the running frame, or of the
                     \* frame that has just run and no event has followed
    q_hist,          \* history: bookkeeping the claims read
    \* ---- planet application (main.js) ----
    m_pc,            \* "off" | "reduce" | "bake" | "snapshot" | "load" | "await" |
                     \* "resume" | "cloner" | "animate" | "idle"
    m_k,             \* index of the layer the running loop of init works on
    meshes,          \* mesh name -> its geometry: [geom, pos, indexed, hasOrig, orig]
    nextGeom,        \* allocation counter of geometry objects
    loads,           \* asset name -> "none" | "pending" | "ok" | "failed"
    loadedAssets,    \* group -> names set in the group's loadedAssets object
    calls,           \* group -> state of the promise its loadAssets call returned
    errors,          \* what console.error has reported
    m_hist,          \* history: bookkeeping the claims read
    \* ---- one call bakeTerrain(planet, params) of the utilities ----
    b_pc,            \* "off" | "call" | "done"
    b_params,        \* the argument params
    b_base,          \* the position buffer of the mesh when the call is made
    b_pos            \* the position buffer of the mesh

clVars == <<cl_pc, cl_count, cl_total, cl_prefabs, cl_i, cl_vIndex,
            usedIndices, cl_clones, cl_sceneBefore>>

qVars == <<q_pc, q_pos, originalPositions, aBakedHeight, clones, vertexIndices,
           impactPoint, settings, q_time, q_log, q_hist>>

mVars == <<m_pc, m_k, meshes, nextGeom, loads, loadedAssets, calls, errors, m_hist>>

bVars == <<b_pc, b_params, b_base, b_pos>>

vars == <<prog, clVars, scene, nextObj, noiseSeed, qVars, mVars, bVars>>

\* ------------------------------------------------------------------ bounds
MaxVerts == 3          \* largest vertex count of a scattered mesh
MaxCount == 4          \* largest requested scatter count
MaxPrefabs == 2        \* largest prefab set
QVerts == 2            \* vertices of the earthquake application's sphere
SetupCount == 2        \* the count init() passes to setupCloner (20, scaled)
QMaxCount == 1         \* largest value of the Clone Count slider
MaxPasses == 2         \* rescatter calls before the slider is left alone
MaxTime == 1           \* largest frame time
MaxSeed == 1           \* largest noise seed
Unit == 100            \* fixed-point resolution: model integers per world unit
MVerts == 3            \* vertices of an icosahedron of the planet application
SpaceCount == 2        \* the count init() passes to cloner (20, scaled)
MaxRegens == 2         \* clicks on Apply Changes
MaxOctaves == 3        \* largest octave count of a bake
MaxLacunarity == 2     \* largest lacunarity of a bake

\* ------------------------------------------------------- program constants
PLANET_RADIUS == 10

frequency == 2

falloffRadius == 15

\* ----------------------------------------------------------------- helpers
Min(a, b) == IF a < b THEN a ELSE b

Max(a, b) == IF a > b THEN a ELSE b

\* ------------------------------------------------------------------ cloner
\* mutant: the count is not limited to the vertex count
ActualCountUnclamped(count, totalVertices) == count

\* const actualCount = Math.min(count, totalVertices)
ActualCount(count, totalVertices) == Min(count, totalVertices)

\* mutant: the loop runs once more than actualCount
LoopContinuesInclusive(i, count, totalVertices) ==
    i <= ActualCount(count, totalVertices)

\* for (let i = 0; i < actualCount; i++): the loop test
LoopContinues(i, count, totalVertices) == i < ActualCount(count, totalVertices)

\* mutant: a drawn index is never rejected
NeverRejected(v, used) == FALSE

\* } while (usedIndices.has(vIndex)): the rejection test of one draw
Rejected(v, used) == v \in used

\* entry of cloner: locals initialised, first loop test
ClonerEnter ==
    /\ cl_pc = "call"
    /\ cl_i' = 0
    /\ usedIndices' = {}
    /\ cl_clones' = <<>>
    /\ cl_sceneBefore' = scene
    /\ cl_pc' = IF LoopContinues(0, cl_count, cl_total) THEN "draw" ELSE "returned"
    /\ UNCHANGED <<prog, bVars, cl_count, cl_total, cl_prefabs, cl_vIndex, scene, nextObj,
                   noiseSeed, qVars, mVars>>

\* one pass of the do-while body whose draw is rejected
ClonerDrawUsed ==
    /\ cl_pc = "draw"
    /\ \E v \in 0..(cl_total - 1) :
          /\ Rejected(v, usedIndices)
          /\ cl_vIndex' = v
    /\ UNCHANGED <<prog, bVars, cl_pc, cl_count, cl_total, cl_prefabs, cl_i,
                   usedIndices, cl_clones, cl_sceneBefore, scene, nextObj,
                   noiseSeed, qVars, mVars>>

\* one pass of the do-while body whose draw is accepted; usedIndices.add
ClonerDrawFresh ==
    /\ cl_pc = "draw"
    /\ \E v \in 0..(cl_total - 1) :
          /\ ~Rejected(v, usedIndices)
          /\ cl_vIndex' = v
          /\ usedIndices' = usedIndices \cup {v}
    /\ cl_pc' = "place"
    /\ UNCHANGED <<prog, bVars, cl_count, cl_total, cl_prefabs, cl_i,
                   cl_clones, cl_sceneBefore, scene, nextObj, noiseSeed, qVars, mVars>>

\* rest of the loop body: pick a prefab, clone, position, scene.add, push.
\* prefabs[0] of an empty array is undefined and .clone() throws.
ClonerPlace ==
    /\ cl_pc = "place"
    /\ IF cl_prefabs = 0
       THEN /\ cl_pc' = "threw"
            /\ UNCHANGED <<cl_i, cl_clones, scene, nextObj>>
       ELSE \E p \in 1..cl_prefabs :
              /\ cl_clones' = Append(cl_clones,
                                     [id |-> nextObj, v |-> cl_vIndex, prefab |-> p])
              /\ scene' = scene \cup {nextObj}
              /\ nextObj' = nextObj + 1
              /\ cl_i' = cl_i + 1
              /\ cl_pc' = IF LoopContinues(cl_i + 1, cl_count, cl_total)
                          THEN "draw" ELSE "returned"
    /\ UNCHANGED <<prog, bVars, cl_count, cl_total, cl_prefabs, cl_vIndex,
                   usedIndices, cl_sceneBefore, noiseSeed, qVars, mVars>>

\* cloner is not running
ClonerOff ==
    /\ cl_pc = "off"
    /\ cl_count = 0
    /\ cl_total = 0
    /\ cl_prefabs = 0
    /\ cl_i = 0
    /\ cl_vIndex = 0
    /\ usedIndices = {}
    /\ cl_clones = <<>>
    /\ cl_sceneBefore = {}

NextCloner == ClonerEnter \/ ClonerDrawUsed \/ ClonerDrawFresh \/ ClonerPlace

\* ----------------------------------------------------------------- numbers
Abs(x) == IF x < 0 THEN -x ELSE x

\* Vector3.normalize() in one dimension (a zero vector stays zero)
Sign(x) == IF x > 0 THEN 1 ELSE IF x < 0 THEN -1 ELSE 0

\* float division, rounded toward zero
Trunc(n, d) == IF n >= 0 THEN n \div d ELSE -((-n) \div d)

\* noise3D: a deterministic function of the seed and the coordinate, in [-1, 1]
NoiseTable == <<0, 1, -1, 1, 0, -1, 1>>

Noise3D(seed, a) == NoiseTable[((a * (seed + 1)) % 7) + 1]

\* Math.sin, sampled at eighths of a period and rounded to -1, 0, 1
SinQ(a) == <<0, 1, 1, 1, 0, -1, -1, -1>>[(a % 8) + 1]

\* --------------------------------------------------- earthquake application
\* new THREE.SphereGeometry(PLANET_RADIUS, 32, 24): every vertex at the radius
SpherePrimitive == [i \in 1..QVerts |-> IF i % 2 = 1 THEN PLANET_RADIUS * Unit
                                                     ELSE -(PLANET_RADIUS * Unit)]

\* bakeTerrain, the noise of one vertex: two octaves, shallow oceans
BakeNoise(seed, x) ==
    LET noise == Trunc(Noise3D(seed, x) * 12 * Unit, 10)
                 + Trunc(Noise3D(seed, x * 4) * 3 * Unit, 10)
    IN IF noise < 0 THEN Trunc(noise, 10) ELSE noise

\* bakeTerrain, one vertex: vertex.add(direction.multiplyScalar(noise))
BakeVertex(seed, x) == x + Sign(x) * BakeNoise(seed, x)

\* mutant: the falloff is not clamped at 0
FalloffUnclamped(dist) == falloffRadius * Unit - dist

\* updateDisplacer: falloff = max(0, 1 - dist / falloffRadius), times the radius
FalloffNum(dist) == Max(0, falloffRadius * Unit - dist)

\* updateDisplacer: wave = sin(dist * frequency - time * 5) * audioVolume * falloff^2
Wave(dist, time, audioVolume) ==
    Trunc(SinQ(dist * frequency - time * 5) * audioVolume
            * FalloffNum(dist) * FalloffNum(dist),
          (falloffRadius * Unit) * (falloffRadius * Unit))

\* updateDisplacer, one vertex, from the position the loop reads for it
DisplaceVertex(x, impact, time, audioVolume) ==
    x + Sign(x) * Wave(Abs(x - impact), time, audioVolume)

\* mutant: the loop reads the buffer it writes
DisplacerSourceCurrent(i) == q_pos[i]

\* updateDisplacer: the position the loop reads for vertex i (originalPositions)
DisplacerSource(i) == originalPositions[i]

\* mutant: a building is moved to the baseline position of its vertex
TrackedBaseline(vIndex) == originalPositions[vIndex + 1]

\* updateClones: the position a building is moved to (the displaced vertex)
TrackedPosition(vIndex) == q_pos[vIndex + 1]

\* mutant: a miss resets the impact point
RaycastResetOnMiss(impact, hit) == IF hit.found THEN hit.point ELSE 0

\* updateRaycast: the impact point after picking; hit.found is
\* intersects.length > 0 and hit.point is intersects[0].point
Raycast(impact, hit) == IF hit.found THEN hit.point ELSE impact

\* mutant: updateClones is called before updateDisplacer
NextStepTrackFirst(step) ==
    CASE step = "raycast"  -> "track"
      [] step = "track"    -> "displace"
      [] step = "displace" -> "render"
      [] step = "render"   -> "idle"

\* animate / updateDisplacer: the order of the steps of one frame
NextStep(step) ==
    CASE step = "raycast"  -> "displace"
      [] step = "displace" -> "track"
      [] step = "track"    -> "render"
      [] step = "render"   -> "idle"

\* the values the sliders of the GUI can give settings.audioVolume
Volumes == {0, Unit \div 2}

\* function bakeTerrain(): displace every vertex, then snapshot the positions
QBakeTerrain ==
    /\ q_pc = "bake"
    /\ q_pos' = [i \in 1..Len(q_pos) |-> BakeVertex(noiseSeed, q_pos[i])]
    /\ originalPositions' = q_pos'
    /\ q_hist' = [q_hist EXCEPT !.baked = q_pos']
    /\ q_pc' = "lock"
    /\ UNCHANGED <<prog, bVars, clVars, mVars, scene, nextObj, noiseSeed, aBakedHeight, clones,
                   vertexIndices, impactPoint, settings, q_time, q_log>>

\* mutant: lockColors stores a coordinate of the vertex, not its length
BakedHeightsSigned(pos) == pos

\* lockColors: bakedHeights[i] = vertex.length() for every vertex
BakedHeights(pos) == [i \in 1..Len(pos) |-> Abs(pos[i])]

\* function lockColors(): the radial distance of every vertex
QLockColors ==
    /\ q_pc = "lock"
    /\ aBakedHeight' = BakedHeights(q_pos)
    /\ q_hist' = [q_hist EXCEPT !.locks = @ + 1]
    /\ q_pc' = "setup"
    /\ UNCHANGED <<prog, bVars, clVars, mVars, scene, nextObj, noiseSeed, q_pos, originalPositions,
                   clones, vertexIndices, impactPoint, settings, q_time, q_log>>

\* function setupCloner(count), appended to the arrays as they are; idx
\* gives the vertex index Math.random() draws for each building
SetupCloner(count, idx, oldClones, oldIndices, oldScene) ==
    /\ clones' = oldClones \o [k \in 1..count |-> [id |-> nextObj + k - 1, pos |-> 0]]
    /\ vertexIndices' = oldIndices \o [k \in 1..count |-> idx[k]]
    /\ scene' = oldScene \cup {nextObj + k - 1 : k \in 1..count}
    /\ nextObj' = nextObj + count

\* init(): setupCloner(20)
QSetupCloner ==
    /\ q_pc = "setup"
    /\ \E idx \in [1..SetupCount -> 0..(Len(q_pos) - 1)] :
          SetupCloner(SetupCount, idx, clones, vertexIndices, scene)
    /\ q_hist' = [q_hist EXCEPT !.passStart = nextObj]
    /\ q_pc' = "idle"
    /\ UNCHANGED <<prog, bVars, clVars, mVars, noiseSeed, q_pos, originalPositions, aBakedHeight,
                   impactPoint, settings, q_time, q_log>>

\* mutant: refreshClones forgets scene.remove
SceneKept == scene

\* the objects refreshClones leaves in the scene before it scatters again
SceneAfterRemove == scene \ {clones[k].id : k \in 1..Len(clones)}

\* the Clone Count slider: settings.count = c, then refreshClones()
RefreshClones ==
    /\ q_pc = "idle"
    /\ q_hist.rescatters < MaxPasses
    /\ \E c \in 1..QMaxCount :
          /\ settings' = [settings EXCEPT !.count = c]
          /\ \E idx \in [1..c -> 0..(Len(q_pos) - 1)] :
                SetupCloner(c, idx, <<>>, <<>>, SceneAfterRemove)
    /\ q_hist' = [q_hist EXCEPT !.passStart = nextObj, !.rescatters = @ + 1]
    /\ q_log' = <<>>
    /\ UNCHANGED <<prog, bVars, clVars, mVars, noiseSeed, q_pc, q_pos, originalPositions,
                   aBakedHeight, impactPoint, q_time>>

\* the Displacement Strength slider
SetVolume ==
    /\ q_pc = "idle"
    /\ \E a \in Volumes : a # settings.audioVolume
                          /\ settings' = [settings EXCEPT !.audioVolume = a]
    /\ q_log' = <<>>
    /\ UNCHANGED <<prog, bVars, clVars, mVars, scene, nextObj, noiseSeed, q_pc, q_pos,
                   originalPositions, aBakedHeight, clones, vertexIndices,
                   impactPoint, q_time, q_hist>>

\* animate(): the frame begins, time = performance.now() * 0.001 * settings.speed
AnimateBegin ==
    /\ q_pc = "idle"
    /\ q_time' \in 0..MaxTime
    /\ q_log' = <<>>
    /\ q_hist' = [q_hist EXCEPT !.impactWrites = 0, !.written = {}]
    /\ q_pc' = "raycast"
    /\ UNCHANGED <<prog, bVars, clVars, mVars, scene, nextObj, noiseSeed, q_pos, originalPositions,
                   aBakedHeight, clones, vertexIndices, impactPoint, settings>>

\* updateRaycast(): the ray hits the planet at a point of its surface, or misses
UpdateRaycast ==
    /\ q_pc = "raycast"
    /\ \E hit \in {[found |-> FALSE, point |-> 0]}
                  \cup {[found |-> TRUE, point |-> q_pos[i]] : i \in 1..Len(q_pos)} :
          /\ impactPoint' = Raycast(impactPoint, hit)
          /\ q_hist' = [q_hist EXCEPT
                          !.lastHit = IF hit.found THEN hit.point ELSE @,
                          !.impactWrites = IF hit.found THEN @ + 1 ELSE @]
    /\ q_log' = Append(q_log, "raycast")
    /\ q_pc' = NextStep("raycast")
    /\ UNCHANGED <<prog, bVars, clVars, mVars, scene, nextObj, noiseSeed, q_pos, originalPositions,
                   aBakedHeight, clones, vertexIndices, settings, q_time>>

\* updateDisplacer(time, audioVolume): the loop over every vertex
UpdateDisplacer ==
    /\ q_pc = "displace"
    /\ q_pos' = [i \in 1..Len(q_pos) |->
                    DisplaceVertex(DisplacerSource(i), impactPoint, q_time,
                                   settings.audioVolume)]
    /\ q_hist' = [q_hist EXCEPT !.written = 1..Len(q_pos),
                                !.overDisplaced = (q_pos # originalPositions)]
    /\ q_log' = Append(q_log, "displace")
    /\ q_pc' = NextStep("displace")
    /\ UNCHANGED <<prog, bVars, clVars, mVars, scene, nextObj, noiseSeed, originalPositions,
                   aBakedHeight, clones, vertexIndices, impactPoint, settings, q_time>>

\* updateClones(): every building follows its vertex
UpdateClones ==
    /\ q_pc = "track"
    /\ clones' = [k \in 1..Len(clones) |->
                    [clones[k] EXCEPT !.pos = TrackedPosition(vertexIndices[k])]]
    /\ q_log' = Append(q_log, "track")
    /\ q_pc' = NextStep("track")
    /\ UNCHANGED <<prog, bVars, clVars, mVars, scene, nextObj, noiseSeed, q_pos, originalPositions,
                   aBakedHeight, vertexIndices, impactPoint, settings, q_time, q_hist>>

\* controls.update(); renderer.render(scene, camera); animate returns and
\* its local time is gone
Render ==
    /\ q_pc = "render"
    /\ q_log' = Append(q_log, "render")
    /\ q_pc' = NextStep("render")
    /\ q_time' = 0
    /\ UNCHANGED <<prog, bVars, clVars, mVars, scene, nextObj, noiseSeed, q_pos, originalPositions,
                   aBakedHeight, clones, vertexIndices, impactPoint, settings,
                   q_hist>>

NextQuake ==
    \/ QBakeTerrain \/ QLockColors \/ QSetupCloner \/ RefreshClones \/ SetVolume
    \/ AnimateBegin \/ UpdateRaycast \/ UpdateDisplacer \/ UpdateClones \/ Render

\* ------------------------------------------------- planet application
\* the value NaN of a float, outside the range of every modelled coordinate
NaN == -1000000000

\* the meshes init() creates, and the radius of each icosahedron in model units
Layers == <<"planet", "ocean", "mountains">>

BakedMeshes == <<"planet", "ocean", "mountains", "sand">>

MeshNames == {"planet", "ocean", "mountains", "sand", "atmosphere"}

Radius(name) ==
    CASE name = "sand" -> (56 * Unit) \div 5
      [] name = "atmosphere" -> 20 * Unit
      [] OTHER -> 12 * Unit

\* new THREE.IcosahedronGeometry(radius, detail): not indexed, every vertex at
\* the radius, seam vertices repeated
Icosahedron(radius) == [i \in 1..MVerts |-> IF i % 2 = 1 THEN radius ELSE -radius]

\* the parameter objects of init(), and the object params the GUI is built on,
\* which has none of the noise fields (defined = FALSE)
NoiseParams(scale, octaves, amplitude) ==
    [defined |-> TRUE, scale |-> scale, octaves |-> octaves,
     persistence |-> <<1, 2>>, lacunarity |-> 2, amplitude |-> amplitude]

ParamsOf(name) ==
    CASE name = "planet" -> NoiseParams(1, 4, 4 * Unit)
      [] name = "ocean" -> NoiseParams(1, 10, Unit \div 2)
      [] name = "mountains" -> NoiseParams(2, 7, 6 * Unit)
      [] name = "sand" -> NoiseParams(1, 7, Unit \div 2)

params == [defined |-> FALSE, scale |-> 0, octaves |-> 0,
           persistence |-> <<0, 1>>, lacunarity |-> 0, amplitude |-> 0]

RECURSIVE Pow(_, _)
Pow(b, e) == IF e = 0 THEN 1 ELSE b * Pow(b, e - 1)

\* bakeTerrain: the weight of octave o, amplitude *= persistence per octave,
\* over the common denominator of all octaves
OctaveWeight(p, o) ==
    Pow(p.persistence[1], o) * Pow(p.persistence[2], p.octaves - 1 - o)

RECURSIVE NoiseSum(_, _, _, _)
\* bakeTerrain: noiseValue after the octaves o .. octaves - 1
NoiseSum(seed, x, p, o) ==
    IF o >= p.octaves THEN 0
    ELSE Noise3D(seed, x * p.scale * Pow(p.lacunarity, o)) * OctaveWeight(p, o)
         + NoiseSum(seed, x, p, o + 1)

\* mutant: maxValue = amplitude, the weights are not accumulated
MaxValueLast(p, o) == IF p.octaves <= 0 THEN 0 ELSE OctaveWeight(p, p.octaves - 1)

RECURSIVE MaxValue(_, _)
\* bakeTerrain: maxValue after the octaves o .. octaves - 1
MaxValue(p, o) ==
    IF o >= p.octaves THEN 0 ELSE OctaveWeight(p, o) + MaxValue(p, o + 1)

\* bakeTerrain: finalHeight = (noiseValue / maxValue) * params.amplitude; with
\* params.octaves undefined the loop does not run and 0 / 0 is NaN
FinalHeight(seed, x, p) ==
    IF ~p.defined \/ MaxValue(p, 0) = 0 THEN NaN
    ELSE Trunc(NoiseSum(seed, x, p, 0) * p.amplitude, MaxValue(p, 0))

\* bakeTerrain, one vertex: vertex.add(dir.multiplyScalar(finalHeight))
TerrainVertex(seed, x, p) ==
    IF x = NaN \/ FinalHeight(seed, x, p) = NaN THEN NaN
    ELSE x + Sign(x) * FinalHeight(seed, x, p)

RECURSIVE MergeVertices(_)
\* BufferGeometryUtils.mergeVertices: coincident vertices become one
MergeVertices(pos) ==
    IF pos = <<>> THEN <<>>
    ELSE LET front == MergeVertices(SubSeq(pos, 1, Len(pos) - 1))
             last == pos[Len(pos)]
         IN IF \E i \in 1..Len(front) : front[i] = last THEN front
            ELSE Append(front, last)

\* bakeTerrain(planet, params): the positions the loop reads
BakeInput(mesh) == mesh.pos

\* bakeTerrain(planet, params): every vertex displaced, normals recomputed,
\* planet.geometry replaced by the welded copy (a clone: userData goes along)
BakeTerrain(mesh, seed, p, newGeom) ==
    [mesh EXCEPT
        !.pos = MergeVertices([i \in 1..Len(BakeInput(mesh)) |->
                                  TerrainVertex(seed, BakeInput(mesh)[i], p)]),
        !.geom = newGeom,
        !.indexed = TRUE]

\* reduceMeshComplexity: countToRemove = Math.floor(initialCount * reductionRatio)
\* with reductionRatio 0.6
CountToRemove(initialCount) == (initialCount * 6) \div 10

\* SimplifyModifier.modify(geometry, countToRemove) when it returns: a new
\* geometry with countToRemove vertices fewer
Simplified(pos, countToRemove) == SubSeq(pos, 1, Len(pos) - countToRemove)

\* the outcomes of the try block of reduceMeshComplexity
ReduceOutcomes == {"ok", "modifyThrows", "normalsThrow"}

\* mutant: mesh.geometry is assigned before simplified.computeVertexNormals()
ReduceAssignsEarly(mesh, outcome, newGeom) ==
    IF outcome \in {"ok", "normalsThrow"}
    THEN LET merged == IF mesh.indexed THEN mesh.pos ELSE MergeVertices(mesh.pos)
         IN [mesh EXCEPT !.pos = Simplified(merged, CountToRemove(Len(merged))),
                         !.geom = newGeom, !.indexed = TRUE,
                         !.hasOrig = FALSE, !.orig = <<>>]
    ELSE mesh

\* reduceMeshComplexity(mesh, 0.6): the mesh after the call
ReduceMesh(mesh, outcome, newGeom) ==
    IF outcome = "ok"
    THEN LET merged == IF mesh.indexed THEN mesh.pos ELSE MergeVertices(mesh.pos)
         IN [mesh EXCEPT !.pos = Simplified(merged, CountToRemove(Len(merged))),
                         !.geom = newGeom, !.indexed = TRUE,
                         !.hasOrig = FALSE, !.orig = <<>>]
    ELSE mesh

\* reduceMeshComplexity: what the catch block reports
ReduceReport(name, outcome) ==
    IF outcome = "ok" THEN {} ELSE {"Simplification failed: " \o name}

\* myLayers.forEach(layer => reduceMeshComplexity(layer, 0.6)): one layer
MReduce ==
    /\ m_pc = "reduce"
    /\ LET name == Layers[m_k]
       IN \E outcome \in ReduceOutcomes :
            /\ meshes' = [meshes EXCEPT ![name] = ReduceMesh(@, outcome, nextGeom)]
            /\ nextGeom' = nextGeom + 1
            /\ errors' = errors \cup ReduceReport(name, outcome)
            /\ m_hist' = [m_hist EXCEPT !.reduced = [name |-> name, outcome |-> outcome,
                                                     before |-> meshes[name]]]
    /\ m_k' = IF m_k < Len(Layers) THEN m_k + 1 ELSE 1
    /\ m_pc' = IF m_k < Len(Layers) THEN "reduce" ELSE "bake"
    /\ UNCHANGED <<prog, bVars, clVars, qVars, scene, nextObj, noiseSeed, loads,
                   loadedAssets, calls>>

\* init(): bakeTerrain(layer, paramsLayer); scene.add(layer), one layer
MBake ==
    /\ m_pc = "bake"
    /\ LET name == BakedMeshes[m_k]
       IN /\ meshes' = [meshes EXCEPT
                          ![name] = BakeTerrain(@, noiseSeed, ParamsOf(name), nextGeom)]
          /\ m_hist' = [m_hist EXCEPT
                          !.planetBase = IF name = "planet" THEN meshes[name].pos ELSE @]
    /\ nextGeom' = nextGeom + 1
    /\ m_k' = IF m_k < Len(BakedMeshes) THEN m_k + 1 ELSE 1
    /\ m_pc' = IF m_k < Len(BakedMeshes) THEN "bake" ELSE "snapshot"
    /\ UNCHANGED <<prog, bVars, clVars, qVars, scene, nextObj, noiseSeed, loads,
                   loadedAssets, calls, errors>>

\* mutant: the snapshot is a copy of the buffer the primitive was created with
SnapshotOfPrimitive(mesh) == Icosahedron(Radius("ocean"))

\* new Float32Array(ocean.geometry.attributes.position.array): a copy of the
\* position buffer of the geometry the mesh has now
SnapshotOf(mesh) == mesh.pos

\* init(): ocean.geometry.userData.originalPositions = new Float32Array(...)
MSnapshot ==
    /\ m_pc = "snapshot"
    /\ meshes' = [meshes EXCEPT !["ocean"].hasOrig = TRUE,
                                !["ocean"].orig = SnapshotOf(meshes["ocean"])]
    /\ m_hist' = [m_hist EXCEPT !.oceanBaked = meshes["ocean"].pos]
    /\ m_pc' = "load"
    /\ UNCHANGED <<prog, bVars, clVars, qVars, scene, nextObj, noiseSeed, m_k, nextGeom,
                   loads, loadedAssets, calls, errors>>

\* the assets init() asks for, by group
Groups == {"nature", "space"}

AssetsOf(group) == IF group = "nature" THEN {"pine", "tree_1", "tree_2"}
                   ELSE {"satellite"}

Assets == AssetsOf("nature") \cup AssetsOf("space")

GroupOf(asset) == IF asset \in AssetsOf("nature") THEN "nature" ELSE "space"

\* init(): Promise.all([loadAssets(natureItems), loadAssets(spaceItems)]); every
\* loadAsync is started and init waits
MStartLoads ==
    /\ m_pc = "load"
    /\ loads' = [a \in Assets |-> "pending"]
    /\ loadedAssets' = [g \in Groups |-> {}]
    /\ calls' = [g \in Groups |-> "pending"]
    /\ m_pc' = "await"
    /\ UNCHANGED <<prog, bVars, clVars, qVars, scene, nextObj, noiseSeed, m_k, meshes,
                   nextGeom, errors, m_hist>>

\* mutant: the call resolves as soon as one of its loads has resolved
CallAfterAny(state, group, newLoads) ==
    IF state # "pending" THEN state
    ELSE IF \E a \in AssetsOf(group) : newLoads[a] = "failed" THEN "rejected"
    ELSE IF \E a \in AssetsOf(group) : newLoads[a] = "ok" THEN "resolved"
    ELSE "pending"

\* loadAssets: the promise of the call once one more load has settled.
\* Promise.all rejects with the first rejection and resolves when all resolved.
CallAfter(state, group, newLoads) ==
    IF state # "pending" THEN state
    ELSE IF \E a \in AssetsOf(group) : newLoads[a] = "failed" THEN "rejected"
    ELSE IF \A a \in AssetsOf(group) : newLoads[a] = "ok" THEN "resolved"
    ELSE "pending"

\* init(): whether the outer Promise.all has settled, so that init resumes
OuterSettled(c) ==
    \/ \E g \in Groups : c[g] = "rejected"
    \/ \A g \in Groups : c[g] = "resolved"

\* one loadAsync settles: the asset is decoded and stored, or the load fails
MLoadSettles ==
    /\ m_pc \in {"await", "idle"}
    /\ \E a \in Assets, ok \in BOOLEAN :
          /\ loads[a] = "pending"
          /\ loads' = [loads EXCEPT ![a] = IF ok THEN "ok" ELSE "failed"]
          /\ loadedAssets' = [loadedAssets EXCEPT
                                ![GroupOf(a)] = IF ok THEN @ \cup {a} ELSE @]
          /\ calls' = [g \in Groups |-> CallAfter(calls[g], g, loads')]
    /\ m_pc' = IF m_pc = "await" /\ OuterSettled(calls') THEN "resume" ELSE m_pc
    /\ UNCHANGED <<prog, bVars, clVars, qVars, scene, nextObj, noiseSeed, m_k, meshes,
                   nextGeom, errors, m_hist>>

\* init() after the await: cloner(atmosphere, 20, Object.values(space), ...)
\* when both calls resolved, else the catch block
MResume ==
    /\ m_pc = "resume"
    /\ IF \A g \in Groups : calls[g] = "resolved"
       THEN /\ cl_pc' = "call"
            /\ cl_count' = SpaceCount
            /\ cl_total' = Len(meshes["atmosphere"].pos)
            /\ cl_prefabs' = Cardinality(loadedAssets["space"])
            /\ m_pc' = "cloner"
            /\ UNCHANGED errors
       ELSE /\ errors' = errors \cup {"Loading failed"}
            /\ m_pc' = "animate"
            /\ UNCHANGED <<cl_pc, cl_count, cl_total, cl_prefabs>>
    /\ UNCHANGED <<prog, bVars, cl_i, cl_vIndex, usedIndices, cl_clones, cl_sceneBefore,
                   qVars, scene, nextObj, noiseSeed, m_k, meshes, nextGeom, loads,
                   loadedAssets, calls, m_hist>>

\* init(): cloner has returned (or thrown into the catch block); animate(planet)
MClonerDone ==
    /\ m_pc = "cloner"
    /\ cl_pc \in {"returned", "threw"}
    /\ errors' = IF cl_pc = "threw" THEN errors \cup {"Loading failed"} ELSE errors
    /\ m_pc' = "animate"
    /\ UNCHANGED <<prog, bVars, clVars, qVars, scene, nextObj, noiseSeed, m_k, meshes,
                   nextGeom, loads, loadedAssets, calls, m_hist>>

\* mutant: the loop reads the buffer it writes
WaterSourceCurrent(mesh, i) == mesh.pos[i]

\* animateWater: the position the loop reads for vertex i of the mesh
\* (original[i * 3]; NaN beyond the end of the array)
WaterSource(mesh, i) == IF i <= Len(mesh.orig) THEN mesh.orig[i] ELSE NaN

\* animateWater, one vertex: wave = sin(time * 2 + x * 1.5 + y * 1.5) * 0.015
WaterVertex(x, time) ==
    IF x = NaN THEN NaN
    ELSE x + Sign(x) * Trunc(SinQ(time * 2 + Trunc(x * 3, 2)) * 15 * Unit, 1000)

\* animate(): animateWater(ocean, time); controls.update(); render
MAnimate ==
    /\ m_pc \in {"animate", "idle"}
    /\ meshes["ocean"].hasOrig
    /\ \E time \in 0..MaxTime :
          /\ meshes' = [meshes EXCEPT
                          !["ocean"].pos = [i \in 1..Len(meshes["ocean"].pos) |->
                                              WaterVertex(WaterSource(meshes["ocean"], i),
                                                          time)]]
          /\ m_hist' = [m_hist EXCEPT
                          !.time = time,
                          !.frames = Min(@ + 1, 2),
                          !.overDisplaced = (meshes["ocean"].pos # meshes["ocean"].orig)]
    /\ m_pc' = "idle"
    /\ UNCHANGED <<prog, bVars, clVars, qVars, scene, nextObj, noiseSeed, m_k, nextGeom,
                   loads, loadedAssets, calls, errors>>

\* params.regenerate: bakeTerrain(planet, params), then the baseline is saved
MRegenerate ==
    /\ m_pc \in {"await", "idle"}
    /\ m_hist.regens < MaxRegens
    /\ LET baked == BakeTerrain(meshes["planet"], noiseSeed, params, nextGeom)
       IN /\ meshes' = [meshes EXCEPT
                          !["planet"] = [baked EXCEPT !.hasOrig = TRUE,
                                                      !.orig = baked.pos]]
          /\ m_hist' = [m_hist EXCEPT
                          !.regens = @ + 1,
                          !.regenInput = BakeInput(meshes["planet"]),
                          !.firstRegen = IF m_hist.regens = 0 THEN baked.pos ELSE @]
    /\ nextGeom' = nextGeom + 1
    /\ UNCHANGED <<prog, bVars, clVars, qVars, scene, nextObj, noiseSeed, m_pc, m_k, loads,
                   loadedAssets, calls, errors>>

NextMain ==
    \/ MReduce \/ MBake \/ MSnapshot \/ MStartLoads \/ MLoadSettles \/ MResume
    \/ MClonerDone \/ MAnimate \/ MRegenerate \/ NextCloner

MHistInit == [reduced |-> [name |-> "none", outcome |-> "ok",
                           before |-> [geom |-> 0, pos |-> <<>>, indexed |-> FALSE,
                                       hasOrig |-> FALSE, orig |-> <<>>]],
              planetBase |-> <<>>, oceanBaked |-> <<>>, time |-> 0, frames |-> 0, overDisplaced |-> FALSE,
              regens |-> 0, regenInput |-> <<>>, firstRegen |-> <<>>]

\* the planet application is not the one that runs
MainOff ==
    /\ m_pc = "off"
    /\ m_k = 1
    /\ meshes = [n \in MeshNames |-> [geom |-> 0, pos |-> <<>>, indexed |-> FALSE,
                                      hasOrig |-> FALSE, orig |-> <<>>]]
    /\ nextGeom = 1
    /\ loads = [a \in Assets |-> "none"]
    /\ loadedAssets = [g \in Groups |-> {}]
    /\ calls = [g \in Groups |-> "none"]
    /\ errors = {}
    /\ m_hist = MHistInit

\* the geometry objects init() gives the five meshes
GeomOf(name) ==
    CASE name = "planet" -> 1 [] name = "ocean" -> 2 [] name = "mountains" -> 3
      [] name = "sand" -> 4 [] name = "atmosphere" -> 5

\* ------------------------------------------------- a call of bakeTerrain
\* the radii of the spheres a bake is called on
BakeRadii == {Unit, PLANET_RADIUS * Unit}

\* the parameter objects a caller can pass: any octave count, a persistence
\* of 0.5 or 1, any lacunarity, an amplitude of 0, 0.5 or 4
BakeParams ==
    {[defined |-> TRUE, scale |-> s, octaves |-> o, persistence |-> ps,
      lacunarity |-> l, amplitude |-> a] :
        s \in {1, 2}, o \in 0..MaxOctaves, ps \in {<<1, 2>>, <<1, 1>>},
        l \in 1..MaxLacunarity, a \in {0, Unit \div 2, 4 * Unit}}

\* no call of bakeTerrain on its own is modelled
BakeOff ==
    /\ b_pc = "off"
    /\ b_params = params
    /\ b_base = <<>>
    /\ b_pos = <<>>

\* bakeTerrain(planet, params) on a sphere: the whole call
BakeCall ==
    /\ b_pc = "call"
    /\ b_pos' = BakeTerrain([geom |-> 1, pos |-> b_pos, indexed |-> FALSE,
                             hasOrig |-> FALSE, orig |-> <<>>],
                            noiseSeed, b_params, 2).pos
    /\ b_pc' = "done"
    /\ UNCHANGED <<prog, b_params, b_base, clVars, scene, nextObj, noiseSeed,
                   qVars, mVars>>

HistInit == [baked |-> <<>>, locks |-> 0, passStart |-> 0, impactWrites |-> 0,
             written |-> {}, lastHit |-> 0, rescatters |-> 0,
             overDisplaced |-> FALSE]

\* the earthquake application is not the one that runs
QuakeOff ==
    /\ q_pc = "off"
    /\ q_pos = <<>>
    /\ originalPositions = <<>>
    /\ aBakedHeight = <<>>
    /\ clones = <<>>
    /\ vertexIndices = <<>>
    /\ impactPoint = 0
    /\ settings = [audioVolume |-> Unit \div 2, count |-> 50]
    /\ q_time = 0
    /\ q_log = <<>>
    /\ q_hist = HistInit

\* the earthquake application when init() has built the sphere
InitQuake ==
    /\ prog = "quake"
    /\ noiseSeed \in 0..MaxSeed
    /\ q_pc = "bake"
    /\ q_pos = SpherePrimitive
    /\ originalPositions = <<>>
    /\ aBakedHeight = <<>>
    /\ clones = <<>>
    /\ vertexIndices = <<>>
    /\ impactPoint = 0
    /\ settings = [audioVolume |-> Unit \div 2, count |-> 50]
    /\ q_time = 0
    /\ q_log = <<>>
    /\ q_hist = HistInit
    /\ scene = {}
    /\ nextObj = 1
    /\ ClonerOff
    /\ MainOff
    /\ BakeOff

\* a call of cloner with any count, vertex count and prefab set
InitCloner ==
    /\ prog = "cloner"
    /\ cl_pc = "call"
    /\ cl_count \in -1..MaxCount
    /\ cl_total \in 0..MaxVerts
    /\ cl_prefabs \in 0..MaxPrefabs
    /\ cl_i = 0
    /\ cl_vIndex = 0
    /\ usedIndices = {}
    /\ cl_clones = <<>>
    /\ scene \in {{}, {0}}
    /\ cl_sceneBefore = {}
    /\ nextObj = 1
    /\ noiseSeed = 0
    /\ QuakeOff
    /\ MainOff
    /\ BakeOff

SpecCloner == InitCloner /\ [][NextCloner]_vars

\* cloner when Math.random() is fair: a draw that can give an unused index
\* eventually gives one, and the straight-line steps of the call are taken
SpecClonerFair ==
    /\ SpecCloner
    /\ WF_vars(ClonerEnter)
    /\ WF_vars(ClonerDrawFresh)
    /\ WF_vars(ClonerPlace)

SpecQuake == InitQuake /\ [][NextQuake]_vars

\* the planet application when init() has created its meshes
InitMain ==
    /\ prog = "main"
    /\ noiseSeed \in 0..MaxSeed
    /\ m_pc = "reduce"
    /\ m_k = 1
    /\ meshes = [n \in MeshNames |-> [geom |-> GeomOf(n), pos |-> Icosahedron(Radius(n)),
                                      indexed |-> FALSE, hasOrig |-> FALSE,
                                      orig |-> <<>>]]
    /\ nextGeom = 6
    /\ loads = [a \in Assets |-> "none"]
    /\ loadedAssets = [g \in Groups |-> {}]
    /\ calls = [g \in Groups |-> "none"]
    /\ errors = {}
    /\ m_hist = MHistInit
    /\ scene = {}
    /\ nextObj = 1
    /\ ClonerOff
    /\ QuakeOff
    /\ BakeOff

SpecMain == InitMain /\ [][NextMain]_vars

\* a call bakeTerrain(planet, params) on a sphere of any radius
InitBake ==
    /\ prog = "bake"
    /\ noiseSeed \in 0..MaxSeed
    /\ b_pc = "call"
    /\ b_params \in BakeParams
    /\ \E r \in BakeRadii : b_base = Icosahedron(r)
    /\ b_pos = b_base
    /\ scene = {}
    /\ nextObj = 1
    /\ ClonerOff
    /\ QuakeOff
    /\ MainOff

SpecBake == InitBake /\ [][BakeCall]_vars

\* any of the entry points runs
Init == InitCloner \/ InitQuake \/ InitMain \/ InitBake

Next == NextMain \/ NextQuake \/ BakeCall

Spec == Init /\ [][Next]_vars

\* --------------------------------------------------------------- claims
\* the vertex indices the returned instances were placed from
PlacedFrom == {cl_clones[k].v : k \in 1..Len(cl_clones)}

\* C1: a call of cloner with a non-empty prefab set returns exactly
\* max(0, min(N, V)) instances and registers exactly that many new objects
\* into the scene (V when N > V, N when 0 <= N <= V, none when N <= 0).
C1_ClonerCount ==
    (cl_pc = "returned" /\ cl_prefabs > 0) =>
        /\ Len(cl_clones) = Max(0, Min(cl_count, cl_total))
        /\ Cardinality(scene \ cl_sceneBefore) = Max(0, Min(cl_count, cl_total))
        /\ cl_sceneBefore \subseteq scene
        /\ (cl_count > cl_total => Len(cl_clones) = cl_total)
        /\ (cl_count >= 0 /\ cl_count <= cl_total => Len(cl_clones) = cl_count)
        /\ (cl_count <= 0 => Len(cl_clones) = 0 /\ scene = cl_sceneBefore)

\* witness of C1: a returned call whose count was clamped to the vertex count
C1_Witness ==
    /\ cl_pc = "returned" /\ cl_prefabs > 0
    /\ cl_count > cl_total /\ cl_total = MaxVerts
    /\ Len(cl_clones) = cl_total

\* C2: in one call of cloner no two instances are placed from the same
\* vertex index (as many chosen indices as instances, at every point of the
\* call), and when N >= vertexCount the chosen set is the whole index range.
C2_DistinctVertices ==
    (cl_pc \in {"draw", "place", "returned"}) =>
        /\ Cardinality(PlacedFrom) = Len(cl_clones)
        /\ \A j, k \in 1..Len(cl_clones) : j # k => cl_clones[j].v # cl_clones[k].v
        /\ (cl_pc = "returned" /\ cl_prefabs > 0 /\ cl_count >= cl_total
              => PlacedFrom = 0..(cl_total - 1))

\* witness of C2: a returned call that used every vertex of a 3-vertex mesh
C2_Witness ==
    /\ cl_pc = "returned" /\ cl_count >= cl_total /\ cl_total >= 2
    /\ PlacedFrom = 0..(cl_total - 1)

\* ------------------------------------------- claims: earthquake application
FrameSteps == <<"raycast", "displace", "track", "render">>

\* the frame has run to its end and nothing has happened since
FrameEnded == q_pc = "idle" /\ q_log = FrameSteps

\* after updateDisplacer, every vertex is what one pass computes from the
\* snapshot bakeTerrain took, with this frame's impact point, time and volume
QuakeNoCompound ==
    /\ (q_pc \in {"idle", "raycast", "displace", "track", "render"}
          => originalPositions = q_hist.baked)
    /\ (q_pc \in {"track", "render"} =>
          \A i \in 1..Len(q_pos) :
             q_pos[i] = DisplaceVertex(q_hist.baked[i], impactPoint, q_time,
                                       settings.audioVolume))

\* a pass has overwritten a buffer that the pass before had displaced
QuakeSecondPass ==
    /\ q_pc = "track"
    /\ q_hist.overDisplaced
    /\ q_pos # originalPositions

\* C5: rescatter releases every placement of the prior scatter before it
\* creates the new ones: after any rescatter the scene holds exactly
\* settings.count placed instances, the placement list holds exactly that many
\* records, and none of them was created by an earlier scatter pass.
C5_RescatterReleases ==
    (q_pc \in {"idle", "raycast", "displace", "track", "render"}) =>
        LET n == IF q_hist.rescatters = 0 THEN SetupCount ELSE settings.count
        IN /\ Len(clones) = n
           /\ Len(vertexIndices) = n
           /\ Cardinality(scene) = n
           /\ scene = {clones[k].id : k \in 1..Len(clones)}
           /\ \A o \in scene : o >= q_hist.passStart

\* witness of C5: the last of several rescatters asked for one instance
C5_Witness ==
    /\ q_pc = "idle"
    /\ q_hist.rescatters = MaxPasses
    /\ settings.count = 1
    /\ Len(clones) = 1
    /\ q_hist.passStart >= SetupCount + QMaxCount + 1

\* C6: at the end of every frame every placed instance is at the current
\* (displaced) position of the vertex it tracks.
C6_InstancesFollow ==
    (FrameEnded \/ q_pc = "render") =>
        \A k \in 1..Len(clones) : clones[k].pos = q_pos[vertexIndices[k] + 1]

\* witness of C6: a frame ended after a rescatter, with an instance on a
\* vertex that the wave moved off its baseline
C6_Witness ==
    /\ FrameEnded
    /\ q_hist.rescatters >= 1
    /\ \E k \in 1..Len(clones) :
          /\ clones[k].pos = q_pos[vertexIndices[k] + 1]
          /\ clones[k].pos # originalPositions[vertexIndices[k] + 1]

\* C7: within a frame the steps run once each, in the order raycast,
\* displacer, tracker, render; the impact point is written at most once per
\* frame and the tracker runs only when the displacer has written every vertex.
C7_FrameOrder ==
    /\ \E n \in 0..Len(FrameSteps) : q_log = SubSeq(FrameSteps, 1, n)
    /\ (q_pc = "raycast" => q_log = <<>>)
    /\ (q_pc = "displace" => q_log = SubSeq(FrameSteps, 1, 1))
    /\ (q_pc = "track" => q_log = SubSeq(FrameSteps, 1, 2))
    /\ (q_pc = "render" => q_log = SubSeq(FrameSteps, 1, 3))
    /\ (q_pc = "idle" => q_log \in {<<>>, FrameSteps})
    /\ q_hist.impactWrites <= 1
    /\ (Len(q_log) >= 3 /\ q_log[3] = "track" => q_hist.written = 1..Len(q_pos))

\* witness of C7: a whole frame has run and its raycast moved the impact point
C7_Witness == FrameEnded /\ q_hist.impactWrites = 1

\* C8: a frame whose picking finds no intersection leaves the impact point as
\* it was: the impact point is always the last intersection found, or its
\* initial value when none was.
C8_MissKeepsImpact == impactPoint = q_hist.lastHit

\* witness of C8: picking missed in this frame and the impact point is still
\* the point an earlier frame found
C8_Witness ==
    /\ q_pc = "displace"
    /\ q_hist.impactWrites = 0
    /\ impactPoint # 0

\* ----------------------------------------------- claims: planet application
\* after animateWater, every ocean vertex is what one pass computes from the
\* snapshot init() took of the baked ocean, with this frame's time
WaterNoCompound ==
    /\ (m_pc \in {"load", "await", "resume", "cloner", "animate", "idle"}
          => /\ meshes["ocean"].hasOrig
             /\ meshes["ocean"].orig = m_hist.oceanBaked)
    /\ (m_pc = "idle" /\ m_hist.frames >= 1 =>
          /\ Len(meshes["ocean"].pos) = Len(m_hist.oceanBaked)
          /\ \A i \in 1..Len(meshes["ocean"].pos) :
                meshes["ocean"].pos[i] = WaterVertex(m_hist.oceanBaked[i], m_hist.time))

\* a pass has overwritten a buffer that the pass before had displaced
WaterSecondPass ==
    /\ m_pc = "idle"
    /\ m_hist.frames >= 2
    /\ m_hist.overDisplaced
    /\ meshes["ocean"].pos # meshes["ocean"].orig

\* C3: the wave displacement never compounds: after any number of passes of
\* updateDisplacer or animateWater every vertex is what a single pass computes
\* from the stored baseline with the current frame's inputs, and the baseline
\* is never written.
C3_NoCompounding == QuakeNoCompound /\ WaterNoCompound

\* witness of C3: a pass ran over a buffer the previous pass had displaced
C3_Witness == QuakeSecondPass \/ WaterSecondPass

\* float comparison of two position buffers (NaN equals nothing)
SamePositions(a, b) ==
    /\ Len(a) = Len(b)
    /\ \A i \in 1..Len(a) : a[i] # NaN /\ b[i] # NaN /\ a[i] = b[i]

\* C4: regenerate re-bakes from the unmodified base primitive, so that
\* regenerating again gives the same vertex positions as regenerating once.
C4_RegenerateFromBase ==
    (m_hist.regens >= 1) =>
        /\ m_hist.regenInput = m_hist.planetBase
        /\ (m_hist.regens >= 2
              => SamePositions(meshes["planet"].pos, m_hist.firstRegen))

\* C9: when an asset fails to load, each loadAssets call still resolves with
\* the assets that loaded, and the scatter of the loaded assets takes place.
C9_FailureKeepsSiblings ==
    (/\ m_pc \in {"animate", "idle"}
     /\ \A a \in Assets : loads[a] \in {"ok", "failed"}
     /\ \E a \in Assets : loads[a] = "failed") =>
        /\ \A g \in Groups :
              /\ calls[g] = "resolved"
              /\ loadedAssets[g] = {a \in AssetsOf(g) : loads[a] = "ok"}
        /\ (loads["satellite"] = "ok" => cl_pc = "returned")

\* no bake has run yet: every layer is as reduceMeshComplexity left it
AfterReduce == m_pc = "reduce" \/ (m_pc = "bake" /\ m_k = 1)

\* C10: when the simplifier or the normal recomputation throws inside
\* reduceMeshComplexity, the failure is reported, init goes on, and the mesh
\* has the same geometry object with the same vertices as before the call.
C10_ReduceFailureKeepsMesh ==
    (AfterReduce /\ m_hist.reduced.name # "none" /\ m_hist.reduced.outcome # "ok") =>
        /\ meshes[m_hist.reduced.name] = m_hist.reduced.before
        /\ meshes[m_hist.reduced.name].geom = GeomOf(m_hist.reduced.name)
        /\ ("Simplification failed: " \o m_hist.reduced.name) \in errors

\* witness of C10: the normal recomputation threw for the last layer and init
\* is about to bake
C10_Witness ==
    /\ m_pc = "bake" /\ m_k = 1
    /\ m_hist.reduced.name = "mountains"
    /\ m_hist.reduced.outcome = "normalsThrow"
    /\ meshes["mountains"].pos = Icosahedron(Radius("mountains"))

\* ------------------------------------------------ claims: error handling
\* C11: a call of cloner with a positive count and an empty prefab set is
\* reported and aborts (it does not return), with the scene as it was and no
\* instance produced.
C11_EmptyPrefabsAborts ==
    (cl_pc \in {"returned", "threw"} /\ cl_count > 0 /\ cl_prefabs = 0) =>
        /\ cl_pc = "threw"
        /\ scene = cl_sceneBefore
        /\ cl_clones = <<>>

\* the states of the earthquake application after lockColors has run
QuakeLocked == q_pc \in {"setup", "idle", "raycast", "displace", "track", "render"}

\* C12: aBakedHeight is written once, by lockColors after the bake, and in
\* every later state each entry is the length of the baseline position of its
\* vertex, whatever the displacer, the tracker and rescatters did since.
C12_BakedHeightLocked ==
    /\ (QuakeLocked =>
          /\ q_hist.locks = 1
          /\ Len(aBakedHeight) = Len(originalPositions)
          /\ \A i \in 1..Len(aBakedHeight) :
                aBakedHeight[i] = Abs(originalPositions[i]))
    /\ (q_pc \in {"bake", "lock"} => aBakedHeight = <<>> /\ q_hist.locks = 0)

\* witness of C12: after a rescatter, the displacer has moved a vertex whose
\* locked height is still its baseline length
C12_Witness ==
    /\ q_pc = "track"
    /\ q_hist.rescatters >= 1
    /\ \E i \in 1..Len(q_pos) :
          /\ Abs(q_pos[i]) # aBakedHeight[i]
          /\ originalPositions[i] < 0
          /\ aBakedHeight[i] = Abs(originalPositions[i])

\* C13: no two records of the placement list track the same vertex index,
\* after init and after any sequence of rescatters.
C13_NoSharedVertex ==
    \A j, k \in 1..Len(vertexIndices) :
        j # k => vertexIndices[j] # vertexIndices[k]

\* the baseline distance of vertex i from the impact point
ImpactDistance(i) == Abs(originalPositions[i] - impactPoint)

\* C14: a displacer pass writes every vertex whose baseline distance from the
\* impact point is at least falloffRadius back at exactly its baseline
\* position, for every time and every amplitude.
C14_FalloffZeroBeyondRadius ==
    (q_pc \in {"track", "render"}) =>
        \A i \in 1..Len(q_pos) :
            ImpactDistance(i) >= falloffRadius * Unit
                => q_pos[i] = originalPositions[i]

\* witness of C14: a pass with a positive amplitude moved a vertex inside the
\* radius and left one beyond the radius on its baseline
C14_Witness ==
    /\ q_pc = "track"
    /\ settings.audioVolume > 0
    /\ q_time > 0
    /\ \E i, j \in 1..Len(q_pos) :
          /\ ImpactDistance(i) >= falloffRadius * Unit
          /\ q_pos[i] = originalPositions[i]
          /\ ImpactDistance(j) < falloffRadius * Unit
          /\ q_pos[j] # originalPositions[j]

\* ------------------------------------------------------- claims: the bake
\* every vertex of the baked buffer is a number whose distance from the
\* origin is within the amplitude of the radius of the sphere
BakeWithinAmplitude ==
    LET r == Abs(b_base[1])
        A == b_params.amplitude
    IN \A i \in 1..Len(b_pos) :
          /\ b_pos[i] # NaN
          /\ Abs(b_pos[i]) >= r - A
          /\ Abs(b_pos[i]) <= r + A

\* C15 as stated: a bake of a sphere of radius r with amplitude A leaves every
\* vertex at a distance within [r - A, r + A] of the origin, for every octave
\* count, persistence and lacunarity.
C15_BakeBounded == (b_pc = "done") => BakeWithinAmplitude

\* the bound holds of every bake with an octave count of at least 1
C15_BakeBoundedFromOneOctave ==
    (b_pc = "done" /\ b_params.octaves >= 1) => BakeWithinAmplitude

\* witness of C15: a bake with several octaves of decreasing weight and the
\* largest amplitude moved a vertex
C15_Witness ==
    /\ b_pc = "done"
    /\ b_params.octaves >= 2
    /\ b_params.persistence = <<1, 2>>
    /\ b_params.amplitude = 4 * Unit
    /\ \E i \in 1..Len(b_pos) : b_pos[i] \notin {b_base[j] : j \in 1..Len(b_base)}

\* ------------------------------------------------- claims: loading, baseline
\* C16: the scatter starts only when every asset load of both groups has
\* completed: cloner is never running, and has never run, while a load that
\* the two loadAssets calls started is pending.
C16_ScatterAfterLoads ==
    (m_pc = "cloner" \/ cl_pc # "off") =>
        /\ \A a \in Assets : loads[a] = "ok"
        /\ \A g \in Groups : calls[g] = "resolved" /\ loadedAssets[g] = AssetsOf(g)

\* witness of C16: init has called cloner and it has placed its instances
C16_Witness ==
    /\ m_pc = "cloner"
    /\ cl_pc = "returned"
    /\ Len(cl_clones) = SpaceCount
    /\ \A a \in Assets : loads[a] = "ok"

\* C17: whenever a displacer pass can run on a mesh, the baseline of the mesh
\* was captured after its last bake and has one entry for every vertex of the
\* buffer the pass writes, also after the bake welded the geometry and after
\* regenerate.
C17_BaselinePresent ==
    /\ (q_pc \in {"idle", "raycast", "displace", "track", "render"} =>
          /\ originalPositions = q_hist.baked
          /\ Len(originalPositions) = Len(q_pos)
          /\ Len(q_pos) > 0)
    /\ (m_pc \in {"animate", "idle"} =>
          /\ meshes["ocean"].hasOrig
          /\ meshes["ocean"].orig = m_hist.oceanBaked
          /\ Len(meshes["ocean"].orig) = Len(meshes["ocean"].pos)
          /\ Len(meshes["ocean"].pos) > 0)
    /\ (m_hist.regens >= 1 =>
          /\ meshes["planet"].hasOrig
          /\ Len(meshes["planet"].orig) = Len(meshes["planet"].pos))

\* witness of C17: a frame has displaced the ocean, whose geometry the bake
\* had welded, after a regenerate
C17_Witness ==
    /\ m_pc = "idle"
    /\ m_hist.frames >= 1
    /\ m_hist.regens >= 1
    /\ Len(meshes["ocean"].pos) < MVerts
    /\ meshes["ocean"].pos # meshes["ocean"].orig

\* ------------------------------------------------- claims: termination
\* C18: every call of cloner terminates: whenever the loop draws, an unused
\* vertex index is left, and under fair draws the call ends, by returning
\* when the prefab set is not empty.
C18_ClonerTerminates ==
    /\ [](cl_pc = "draw" => \E v \in 0..(cl_total - 1) : v \notin usedIndices)
    /\ <>(cl_pc = "returned" \/ (cl_pc = "threw" /\ cl_prefabs = 0))

\* witness of C18: a call that asked for more instances than the mesh has
\* vertices has returned with one instance on every vertex
C18_Witness ==
    /\ cl_pc = "returned"
    /\ cl_count > cl_total
    /\ cl_total >= 2
    /\ Cardinality(usedIndices) = cl_total
    /\ cl_i = cl_total

====
